---- MODULE Spec2Model ----
(***************************************************************************)
(* backend/config.py: the Settings schema (a pydantic-settings             *)
(* BaseSettings subclass with env_file=".env") and the module-level        *)
(* statement  settings = Settings()  that loads it when the module is      *)
(* imported.                                                               *)
(*                                                                         *)
(* A load reads two inputs, the process environment (os.environ, an        *)
(* ordered list of NAME=value entries) and the lines of the .env file,     *)
(* resolves every declared field (environment, else file, else default),   *)
(* coerces the raw text to the field's declared type and either builds the *)
(* instance or raises one validation error listing every failing field.    *)
(***************************************************************************)
EXTENDS Integers, Sequences, FiniteSets, TLC

VARIABLES
    environ,    \* os.environ: a sequence of <<name, value>>, names distinct
    env_file,   \* the lines of .env: a sequence of <<key, value>>
    lifecycle,  \* import state of the module: "unloaded", "loaded", "failed"
    settings,   \* the module-level name settings: an instance or NoInstance
    error,      \* the validation error raised by the import: {<<field, kind>>}
    instances,  \* number of Settings instances constructed so far
    assigns     \* number of attribute assignments made on settings

vars == <<environ, env_file, lifecycle, settings, error, instances, assigns>>

\* Bounds of the model.
MaxDeviations == 2
MaxAssign == 1
MaxInstances == 2

(***************************************************************************)
(* The schema: the fields in declaration order, their types, which are     *)
(* required (declared without a default) and the declared defaults.        *)
(***************************************************************************)
Fields ==
    << "environment", "debug", "app_name", "host", "port",
       "supabase_url", "supabase_key", "supabase_service_key",
       "facebook_page_access_token", "facebook_verify_token",
       "facebook_app_secret",
       "anthropic_api_key", "openai_api_key", "llm_provider",
       "stripe_secret_key", "stripe_publishable_key", "stripe_webhook_secret",
       "default_venue_language", "max_free_menu_parses",
       "default_free_credits", "credits_per_order", "credits_per_rejection",
       "credits_per_menu_import", "log_level" >>

FieldNames == {Fields[i] : i \in DOMAIN Fields}

Required ==
    { "supabase_url", "supabase_key", "supabase_service_key",
      "facebook_page_access_token", "facebook_verify_token",
      "facebook_app_secret",
      "stripe_secret_key", "stripe_publishable_key", "stripe_webhook_secret" }

Optional == FieldNames \ Required

FieldType(f) ==
    CASE f = "debug" -> "bool"
      [] f \in {"port", "max_free_menu_parses", "default_free_credits",
                "credits_per_menu_import"} -> "int"
      [] f \in {"credits_per_order", "credits_per_rejection"} -> "float"
      [] OTHER -> "str"

\* A typed Python value: t is its type, n its number (a bool as 0/1, a float
\* in tenths), s its text.
StrV(s) == [t |-> "str", n |-> 0, s |-> s]
IntV(n) == [t |-> "int", n |-> n, s |-> ""]
BoolV(b) == [t |-> "bool", n |-> IF b THEN 1 ELSE 0, s |-> ""]
FloatV(tenths) == [t |-> "float", n |-> tenths, s |-> ""]

\* A mutated schema: port declared with another default.
DefaultPortChanged(f) ==
    CASE f = "environment" -> StrV("development")
      [] f = "debug" -> BoolV(TRUE)
      [] f = "app_name" -> StrV("OrderOctopus")
      [] f = "host" -> StrV("0.0.0.0")
      [] f = "port" -> IntV(8080)
      [] f = "anthropic_api_key" -> StrV("")
      [] f = "openai_api_key" -> StrV("")
      [] f = "llm_provider" -> StrV("anthropic")
      [] f = "default_venue_language" -> StrV("en")
      [] f = "max_free_menu_parses" -> IntV(3)
      [] f = "default_free_credits" -> IntV(25)
      [] f = "credits_per_order" -> FloatV(10)
      [] f = "credits_per_rejection" -> FloatV(5)
      [] f = "credits_per_menu_import" -> IntV(15)
      [] f = "log_level" -> StrV("INFO")

Default(f) ==
    CASE f = "environment" -> StrV("development")
      [] f = "debug" -> BoolV(TRUE)
      [] f = "app_name" -> StrV("OrderOctopus")
      [] f = "host" -> StrV("0.0.0.0")
      [] f = "port" -> IntV(8000)
      [] f = "anthropic_api_key" -> StrV("")
      [] f = "openai_api_key" -> StrV("")
      [] f = "llm_provider" -> StrV("anthropic")
      [] f = "default_venue_language" -> StrV("en")
      [] f = "max_free_menu_parses" -> IntV(3)
      [] f = "default_free_credits" -> IntV(25)
      [] f = "credits_per_order" -> FloatV(10)
      [] f = "credits_per_rejection" -> FloatV(5)
      [] f = "credits_per_menu_import" -> IntV(15)
      [] f = "log_level" -> StrV("INFO")

(***************************************************************************)
(* Names.  BaseSettings matches environment variables to fields without    *)
(* regard to case (model_config sets no case_sensitive): every name read   *)
(* from the environment or the file is lower-cased before the lookup.      *)
(***************************************************************************)
UpperName(f) ==
    CASE f = "environment" -> "ENVIRONMENT"
      [] f = "debug" -> "DEBUG"
      [] f = "app_name" -> "APP_NAME"
      [] f = "host" -> "HOST"
      [] f = "port" -> "PORT"
      [] f = "supabase_url" -> "SUPABASE_URL"
      [] f = "supabase_key" -> "SUPABASE_KEY"
      [] f = "supabase_service_key" -> "SUPABASE_SERVICE_KEY"
      [] f = "facebook_page_access_token" -> "FACEBOOK_PAGE_ACCESS_TOKEN"
      [] f = "facebook_verify_token" -> "FACEBOOK_VERIFY_TOKEN"
      [] f = "facebook_app_secret" -> "FACEBOOK_APP_SECRET"
      [] f = "anthropic_api_key" -> "ANTHROPIC_API_KEY"
      [] f = "openai_api_key" -> "OPENAI_API_KEY"
      [] f = "llm_provider" -> "LLM_PROVIDER"
      [] f = "stripe_secret_key" -> "STRIPE_SECRET_KEY"
      [] f = "stripe_publishable_key" -> "STRIPE_PUBLISHABLE_KEY"
      [] f = "stripe_webhook_secret" -> "STRIPE_WEBHOOK_SECRET"
      [] f = "default_venue_language" -> "DEFAULT_VENUE_LANGUAGE"
      [] f = "max_free_menu_parses" -> "MAX_FREE_MENU_PARSES"
      [] f = "default_free_credits" -> "DEFAULT_FREE_CREDITS"
      [] f = "credits_per_order" -> "CREDITS_PER_ORDER"
      [] f = "credits_per_rejection" -> "CREDITS_PER_REJECTION"
      [] f = "credits_per_menu_import" -> "CREDITS_PER_MENU_IMPORT"
      [] f = "log_level" -> "LOG_LEVEL"

UpperNames == {UpperName(f) : f \in FieldNames}

\* str.lower() on the names of the model: the lower-case and upper-case
\* spellings of the field names.
LowerTable ==
    [n \in FieldNames \cup UpperNames |->
        IF n \in FieldNames THEN n
        ELSE CHOOSE f \in FieldNames : UpperName(f) = n]

LowerName(name) == LowerTable[name]

\* A mutated lookup key: names compared as they are spelled.
EnvKeyCaseSensitive(name) == name

\* The key under which a variable of the environment (or a line of the file)
\* is looked up.
EnvKey(name) == LowerName(name)

(***************************************************************************)
(* Raw text and its coercion.  Raw values are strings; Chars gives the     *)
(* characters of each string the model uses.                               *)
(***************************************************************************)
Chars(raw) ==
    CASE raw = "0" -> <<"0">>
      [] raw = "abc" -> <<"a", "b", "c">>
      [] raw = "true" -> <<"t", "r", "u", "e">>
      [] raw = "8080" -> <<"8", "0", "8", "0">>
      [] raw = "1.5" -> <<"1", ".", "5">>
      [] raw = "https://x.test" ->
            <<"h", "t", "t", "p", "s", ":", "/", "/", "x", ".", "t", "e", "s", "t">>
      [] raw = "def" -> <<"d", "e", "f">>
      [] raw = "fpt" -> <<"f", "p", "t">>
      [] raw = "fvt" -> <<"f", "v", "t">>
      [] raw = "fas" -> <<"f", "a", "s">>
      [] raw = "sk" -> <<"s", "k">>
      [] raw = "pk" -> <<"p", "k">>
      [] raw = "wh" -> <<"w", "h">>

Digits == {"0", "1", "2", "3", "4", "5", "6", "7", "8", "9"}

DigitVal(c) ==
    CASE c = "0" -> 0 [] c = "1" -> 1 [] c = "2" -> 2 [] c = "3" -> 3
      [] c = "4" -> 4 [] c = "5" -> 5 [] c = "6" -> 6 [] c = "7" -> 7
      [] c = "8" -> 8 [] c = "9" -> 9

RECURSIVE DigitsValue(_)
DigitsValue(ds) ==
    IF ds = <<>> THEN 0
    ELSE DigitsValue(SubSeq(ds, 1, Len(ds) - 1)) * 10 + DigitVal(ds[Len(ds)])

AllDigits(cs) == cs # <<>> /\ \A i \in DOMAIN cs : cs[i] \in Digits

\* The sign and the unsigned part of a number's text.
Signed(cs) == cs # <<>> /\ cs[1] \in {"-", "+"}
Unsigned(cs) == IF Signed(cs) THEN Tail(cs) ELSE cs
Sign(cs) == IF cs # <<>> /\ cs[1] = "-" THEN -1 ELSE 1

\* bool: the accepted tokens; anything else does not parse.
BoolTrueTokens == {"1", "on", "t", "true", "y", "yes"}
BoolFalseTokens == {"0", "off", "f", "false", "n", "no"}

\* Each parser yields the set of its results: one value, or none when the
\* text does not parse.
ParseBool(raw) ==
    IF raw \in BoolTrueTokens THEN {BoolV(TRUE)}
    ELSE IF raw \in BoolFalseTokens THEN {BoolV(FALSE)}
    ELSE {}

ParseInt(raw) ==
    LET cs == Chars(raw)
        body == Unsigned(cs)
    IN  IF AllDigits(body) THEN {IntV(Sign(cs) * DigitsValue(body))} ELSE {}

\* float: digits with at most one point; the model's texts carry at most one
\* fractional digit, so the value is kept in tenths.
ParseFloat(raw) ==
    LET cs == Chars(raw)
        body == Unsigned(cs)
        dots == {i \in DOMAIN body : body[i] = "."}
    IN  IF dots = {}
        THEN IF AllDigits(body)
             THEN {FloatV(Sign(cs) * DigitsValue(body) * 10)}
             ELSE {}
        ELSE IF Cardinality(dots) = 1
        THEN LET p == CHOOSE i \in dots : TRUE
                 whole == SubSeq(body, 1, p - 1)
                 frac == SubSeq(body, p + 1, Len(body))
             IN  IF /\ AllDigits(whole \o frac)
                    /\ Len(frac) <= 1
                    /\ \A i \in DOMAIN whole : whole[i] \in Digits
                 THEN {FloatV(Sign(cs) * (DigitsValue(whole) * 10
                                          + DigitsValue(frac)))}
                 ELSE {}
        ELSE {}

\* The kind of the validation error a field's failed coercion is reported as.
CoercionKind(f) ==
    CASE FieldType(f) = "bool" -> "bool_parsing"
      [] FieldType(f) = "int" -> "int_parsing"
      [] FieldType(f) = "float" -> "float_parsing"
      [] OTHER -> "string_type"

\* Validation of a field's raw text against its declared type.
Coerce(f, raw) ==
    CASE FieldType(f) = "bool" -> ParseBool(raw)
      [] FieldType(f) = "int" -> ParseInt(raw)
      [] FieldType(f) = "float" -> ParseFloat(raw)
      [] OTHER -> {StrV(raw)}

(***************************************************************************)
(* Sources.  The environment's variables and the file's lines are each     *)
(* gathered into a mapping keyed by EnvKey, a later entry replacing an     *)
(* earlier one with the same key; a field is then looked up by its name.   *)
(* Below, env and file are such mappings.                                  *)
(***************************************************************************)
Last(S) == CHOOSE i \in S : \A j \in S : j <= i

\* The entries of a source as a mapping from key to value.
Mapping(entries) ==
    LET key == [i \in DOMAIN entries |-> EnvKey(entries[i][1])]
    IN  [k \in {key[i] : i \in DOMAIN entries} |->
            entries[Last({i \in DOMAIN entries : key[i] = k})][2]]

\* The value a mapping holds for field f: a set of one raw value, or the
\* empty set when it has no such key.
Lookup(map, f) == IF f \in DOMAIN map THEN {map[f]} ELSE {}

\* A mutated precedence: the file is consulted before the environment.
SourceFileFirst(f, env, file) ==
    IF Lookup(file, f) # {} THEN Lookup(file, f) ELSE Lookup(env, f)

\* The raw value of field f: the environment's, else the file's, else none.
Source(f, env, file) ==
    IF Lookup(env, f) # {} THEN Lookup(env, f) ELSE Lookup(file, f)

Raw(src) == CHOOSE r \in src : TRUE

\* A mutated validation: a required field with no value is given "".
ValidateMissingAsEmpty(f, env, file) ==
    LET src == Source(f, env, file)
    IN  IF src = {}
        THEN [val |-> IF f \in Required THEN {StrV("")} ELSE {Default(f)},
              err |-> {}]
        ELSE [val |-> Coerce(f, Raw(src)),
              err |-> IF Coerce(f, Raw(src)) = {}
                      THEN {<<f, CoercionKind(f)>>} ELSE {}]

\* A mutated validation: a value that does not coerce is replaced by the
\* field's default.
ValidateDefaultOnBadValue(f, env, file) ==
    LET src == Source(f, env, file)
    IN  IF src = {}
        THEN IF f \in Required
             THEN [val |-> {}, err |-> {<<f, "missing">>}]
             ELSE [val |-> {Default(f)}, err |-> {}]
        ELSE IF Coerce(f, Raw(src)) = {} /\ f \in Optional
        THEN [val |-> {Default(f)}, err |-> {}]
        ELSE [val |-> Coerce(f, Raw(src)),
              err |-> IF Coerce(f, Raw(src)) = {}
                      THEN {<<f, CoercionKind(f)>>} ELSE {}]

\* One field of a load: val is the set holding its validated value (empty
\* when it has none), err the set holding its <<field, kind>> error.
Validate(f, env, file) ==
    LET src == Source(f, env, file)
    IN  IF src = {}
        THEN IF f \in Required
             THEN [val |-> {}, err |-> {<<f, "missing">>}]
             ELSE [val |-> {Default(f)}, err |-> {}]
        ELSE LET v == Coerce(f, Raw(src))
             IN  [val |-> v,
                  err |-> IF v = {} THEN {<<f, CoercionKind(f)>>} ELSE {}]

\* A mutated error report: validation stops at the first failing field, in
\* declaration order.
FirstErrorOnly(results) ==
    LET bad == {i \in DOMAIN Fields : results[Fields[i]].err # {}}
    IN  IF bad = {} THEN {}
        ELSE results[Fields[CHOOSE i \in bad : \A j \in bad : i <= j]].err

\* The errors of a load: those of every field (results maps each field to
\* its validation).
ValidationErrors(results) == UNION {results[f].err : f \in FieldNames}

NoInstance == <<>>

\* Settings(): the instance when no field fails; otherwise no instance and
\* the validation error.
Load(env_entries, file_entries) ==
    LET env == Mapping(env_entries)
        file == Mapping(file_entries)
        results == [f \in FieldNames |-> Validate(f, env, file)]
        errs == ValidationErrors(results)
    IN  [errors |-> errs,
         instance |-> IF errs = {}
                      THEN [f \in FieldNames |->
                               CHOOSE v \in results[f].val : TRUE]
                      ELSE NoInstance]

(***************************************************************************)
(* Inputs.  A load starts from a complete environment (the nine required   *)
(* variables, nothing else, no file) changed in up to MaxDeviations        *)
(* places: a variable set under the lower-case or the upper-case spelling  *)
(* of a field's name, a required variable removed, a line added to the     *)
(* file.  The file's lines name declared fields only.                      *)
(***************************************************************************)
BaseEnv ==
    << <<"supabase_url", "https://x.test">>,
       <<"supabase_key", "abc">>,
       <<"supabase_service_key", "def">>,
       <<"facebook_page_access_token", "fpt">>,
       <<"facebook_verify_token", "fvt">>,
       <<"facebook_app_secret", "fas">>,
       <<"stripe_secret_key", "sk">>,
       <<"stripe_publishable_key", "pk">>,
       <<"stripe_webhook_secret", "wh">> >>

\* The raw texts tried for a field, by the place that supplies them.  "0" is
\* a valid value of every type, "abc" of str only; "true", "8080" and "1.5"
\* are valid for bool, int (and float) and float only.
EnvValuesFor(f) ==
    CASE FieldType(f) = "bool" -> {"0", "true", "abc"}
      [] FieldType(f) = "int" -> {"0", "8080", "1.5", "abc"}
      [] FieldType(f) = "float" -> {"0", "1.5", "abc"}
      [] OTHER -> {"0"}

UpperValuesFor(f) == {"0"}

FileValuesFor(f) == IF FieldType(f) = "str" THEN {"abc"} ELSE {"0", "abc"}

RECURSIVE SetToSeq(_)
SetToSeq(S) ==
    IF S = {} THEN <<>>
    ELSE LET x == CHOOSE y \in S : TRUE IN <<x>> \o SetToSeq(S \ {x})

\* The deviations, in the order they are applied: the upper-case variables
\* are set first, so that both orders of two spellings of one name occur
\* (after the lower-case name for a required field, before it otherwise).
Deviations ==
    SetToSeq(UNION {{[op |-> "setenv", name |-> UpperName(f), value |-> v] :
                        v \in UpperValuesFor(f)} : f \in FieldNames})
    \o SetToSeq(UNION {{[op |-> "setenv", name |-> f, value |-> v] :
                          v \in EnvValuesFor(f)} : f \in FieldNames})
    \o SetToSeq({[op |-> "unsetenv", name |-> f, value |-> ""] : f \in Required})
    \o SetToSeq(UNION {{[op |-> "fileline", name |-> f, value |-> v] :
                          v \in FileValuesFor(f)} : f \in FieldNames})

NumDeviations == Len(Deviations)

\* os.environ[name] = value, del os.environ[name]
ApplyEnv(env, d) ==
    CASE d.op = "setenv" ->
            IF \E i \in DOMAIN env : env[i][1] = d.name
            THEN [i \in DOMAIN env |->
                     IF env[i][1] = d.name THEN <<d.name, d.value>> ELSE env[i]]
            ELSE Append(env, <<d.name, d.value>>)
      [] d.op = "unsetenv" -> SelectSeq(env, LAMBDA e : e[1] # d.name)
      [] OTHER -> env

ApplyFile(file, d) ==
    IF d.op = "fileline" THEN Append(file, <<d.name, d.value>>) ELSE file

\* ds holds indices into Deviations, 0 for none.
RECURSIVE EnvAfter(_, _)
EnvAfter(env, ds) ==
    IF ds = <<>> THEN env
    ELSE EnvAfter(IF Head(ds) = 0 THEN env
                  ELSE ApplyEnv(env, Deviations[Head(ds)]), Tail(ds))

RECURSIVE FileAfter(_, _)
FileAfter(file, ds) ==
    IF ds = <<>> THEN file
    ELSE FileAfter(IF Head(ds) = 0 THEN file
                   ELSE ApplyFile(file, Deviations[Head(ds)]), Tail(ds))

\* The c-th choice of MaxDeviations deviations (c written in base
\* NumDeviations + 1), and whether it lists them in order, each once.
Choice(c) ==
    [j \in 1..MaxDeviations |->
        (c \div ((NumDeviations + 1) ^ (MaxDeviations - j))) % (NumDeviations + 1)]

InOrder(ds) ==
    \A j \in 1..(MaxDeviations - 1) : ds[j] = 0 \/ ds[j] < ds[j + 1]

(***************************************************************************)
(* The module's import: settings = Settings() runs once.                   *)
(***************************************************************************)
\* A mutated import: a failed load leaves the module importable again.
LifecycleRetry(errs) == IF errs = {} THEN "loaded" ELSE "unloaded"

LifecycleAfter(errs) == IF errs = {} THEN "loaded" ELSE "failed"

LoadInit ==
    /\ \E c \in 0..((NumDeviations + 1) ^ MaxDeviations - 1) :
          /\ InOrder(Choice(c))
          /\ environ = EnvAfter(BaseEnv, Choice(c))
          /\ env_file = FileAfter(<<>>, Choice(c))
    /\ lifecycle = "unloaded"
    /\ settings = NoInstance
    /\ error = {}
    /\ instances = 0
    /\ assigns = 0

Import ==
    /\ lifecycle = "unloaded"
    /\ LET res == Load(environ, env_file)
       IN  /\ lifecycle' = LifecycleAfter(res.errors)
           /\ settings' = res.instance
           /\ error' = res.errors
           /\ instances' = IF res.errors = {} THEN instances + 1 ELSE instances
    /\ UNCHANGED <<environ, env_file, assigns>>

LoadNext == Import

SpecLoad == LoadInit /\ [][LoadNext]_vars

(***************************************************************************)
(* The process around the module.  Once the import has succeeded the rest  *)
(* of the process holds the instance and the class: it can assign to an    *)
(* attribute of settings (model_config does not freeze the model and does  *)
(* not validate assignments) and it can call Settings() again.             *)
(***************************************************************************)
Scenarios ==
    { [env |-> BaseEnv, file |-> <<>>],
      [env |-> SelectSeq(BaseEnv, LAMBDA e : e[1] # "stripe_secret_key"),
       file |-> <<>>],
      [env |-> Append(BaseEnv, <<"PORT", "8080">>),
       file |-> << <<"port", "0">>, <<"log_level", "abc">> >>],
      [env |-> Append(BaseEnv, <<"debug", "abc">>), file |-> <<>>] }

ProcessInit ==
    /\ \E sc \in Scenarios : environ = sc.env /\ env_file = sc.file
    /\ lifecycle = "unloaded"
    /\ settings = NoInstance
    /\ error = {}
    /\ instances = 0
    /\ assigns = 0

\* The objects a consumer assigns: nothing checks them against the field.
AssignValues == {StrV("abc"), IntV(0)}

\* settings.<f> = v
SetAttr(f, v) ==
    /\ lifecycle = "loaded"
    /\ assigns < MaxAssign
    /\ settings' = [settings EXCEPT ![f] = v]
    /\ assigns' = assigns + 1
    /\ UNCHANGED <<environ, env_file, lifecycle, error, instances>>

\* Settings() called by a consumer: a further instance, settings unchanged.
Construct ==
    /\ lifecycle = "loaded"
    /\ instances < MaxInstances
    /\ instances' = IF Load(environ, env_file).errors = {}
                    THEN instances + 1 ELSE instances
    /\ UNCHANGED <<environ, env_file, lifecycle, settings, error, assigns>>

Next ==
    \/ Import
    \/ \E f \in FieldNames, v \in AssignValues : SetAttr(f, v)
    \/ Construct

Spec == ProcessInit /\ [][Next]_vars

(***************************************************************************)
(* Properties.  The inputs are read off the state directly: the raw values *)
(* the environment holds for a field under any spelling of its name, and   *)
(* the raw values the file's lines hold for it.                            *)
(***************************************************************************)
EnvRaw(f) ==
    {environ[i][2] : i \in {j \in DOMAIN environ : LowerName(environ[j][1]) = f}}

FileRaw(f) ==
    {env_file[i][2] : i \in {j \in DOMAIN env_file : LowerName(env_file[j][1]) = f}}

Absent(f) == EnvRaw(f) = {} /\ FileRaw(f) = {}

ErrorFields == {e[1] : e \in error}

Loaded == lifecycle = "loaded"
Failed == lifecycle = "failed"
Finished == lifecycle # "unloaded"

\* The raw value the load resolves each field from (none when the field has
\* no source).
ResolvedAll ==
    LET env == Mapping(environ)
        file == Mapping(env_file)
    IN  [f \in FieldNames |-> Source(f, env, file)]

Resolved(f) == ResolvedAll[f]

\* C1: a required field with no value in the environment and none in the
\* file makes the load fail with a missing-field error naming that field, and
\* no instance is produced, whatever the other fields hold.
C1_MissingRequiredFails ==
    Finished =>
        \A f \in Required :
            Absent(f) =>
                /\ Failed
                /\ settings = NoInstance
                /\ instances = 0
                /\ <<f, "missing">> \in error

\* A failed load with a required field absent and reported missing while an
\* optional field has a value of its own in the environment.
C1_Witness ==
    /\ Failed
    /\ \E f \in Required :
          /\ Absent(f)
          /\ <<f, "missing">> \in error
          /\ \E g \in Optional : EnvRaw(g) # {}

\* C2: after a successful load every field that has a value in the
\* environment holds the environment's value (also when the file has another
\* one); a field with no value in the environment holds the file's value;
\* a field with neither holds its declared default.
C2_EnvironmentPrecedence ==
    Loaded =>
        \A f \in FieldNames :
            IF EnvRaw(f) # {}
            THEN \E r \in EnvRaw(f) : settings[f] \in Coerce(f, r)
            ELSE IF FileRaw(f) # {}
            THEN \E r \in FileRaw(f) : settings[f] \in Coerce(f, r)
            ELSE settings[f] = Default(f)

\* A successful load in which one field has different values in the
\* environment and in the file, and another field is supplied by the file
\* alone.
C2_Witness ==
    /\ Loaded
    /\ \E f \in FieldNames :
          /\ EnvRaw(f) # {}
          /\ FileRaw(f) # {}
          /\ EnvRaw(f) \cap FileRaw(f) = {}
          /\ \A r \in FileRaw(f) : settings[f] \notin Coerce(f, r)
    /\ \E g \in FieldNames : EnvRaw(g) = {} /\ FileRaw(g) # {}

\* The defaults as the schema's documentation lists them.
C3_Expected(f) ==
    CASE f = "environment" -> StrV("development")
      [] f = "debug" -> BoolV(TRUE)
      [] f = "app_name" -> StrV("OrderOctopus")
      [] f = "host" -> StrV("0.0.0.0")
      [] f = "port" -> IntV(8000)
      [] f = "anthropic_api_key" -> StrV("")
      [] f = "openai_api_key" -> StrV("")
      [] f = "llm_provider" -> StrV("anthropic")
      [] f = "default_venue_language" -> StrV("en")
      [] f = "max_free_menu_parses" -> IntV(3)
      [] f = "default_free_credits" -> IntV(25)
      [] f = "credits_per_order" -> FloatV(10)
      [] f = "credits_per_rejection" -> FloatV(5)
      [] f = "credits_per_menu_import" -> IntV(15)
      [] f = "log_level" -> StrV("INFO")

\* C3 as stated: with every required field supplied, a load in which an
\* optional field is absent from the environment and the file succeeds and
\* the field equals its declared default.
C3_AbsentOptionalLoads ==
    (Finished /\ \A r \in Required : ~Absent(r)) =>
        \A f \in Optional :
            Absent(f) => Loaded /\ settings[f] = C3_Expected(f)

\* C3 as amended: an optional field absent from the environment and the file
\* is never among the failing fields, and whenever the load succeeds the
\* field equals its declared default exactly (the load can still fail on
\* another field).
C3_AbsentOptionalDefault ==
    Finished =>
        \A f \in Optional :
            Absent(f) =>
                /\ f \notin ErrorFields
                /\ Loaded => settings[f] = C3_Expected(f)

\* A successful load with port absent and another optional field supplied.
C3_Witness ==
    /\ Loaded
    /\ Absent("port")
    /\ settings["port"] = IntV(8000)
    /\ \E g \in Optional : ~Absent(g)

\* Text that is no number: some character is neither a digit, a sign nor a
\* decimal point.
NonNumeric(raw) ==
    \E i \in DOMAIN Chars(raw) : Chars(raw)[i] \notin Digits \cup {".", "-", "+"}

BadText(f, raw) ==
    CASE FieldType(f) = "bool" -> raw \notin BoolTrueTokens \cup BoolFalseTokens
      [] FieldType(f) \in {"int", "float"} -> NonNumeric(raw)
      [] OTHER -> FALSE

\* C6: a bool field resolved to text outside the accepted tokens, or an int
\* or float field resolved to non-numeric text, makes the load fail with a
\* coercion error for that field; no instance is produced and the default is
\* not substituted.
C6_BadValueFails ==
    Finished =>
        LET res == ResolvedAll
        IN  \A f \in FieldNames :
                \A r \in res[f] :
                    BadText(f, r) =>
                        /\ Failed
                        /\ settings = NoInstance
                        /\ instances = 0
                        /\ <<f, CoercionKind(f)>> \in error

\* A failed load whose only failing field is an optional typed field with
\* bad text.
C6_Witness ==
    /\ Failed
    /\ \E f \in Optional :
          /\ \E r \in Resolved(f) : BadText(f, r)
          /\ error = {<<f, CoercionKind(f)>>}

\* The last variable of the environment among the spellings of its name.
LastSpelling(i) ==
    \A j \in DOMAIN environ :
        j > i => LowerName(environ[j][1]) # LowerName(environ[i][1])

\* C8 as stated: every variable of the environment whose name is a spelling
\* of a field's name supplies that field's value.
C8_EveryVariantSupplies ==
    Loaded =>
        \A i \in DOMAIN environ :
            settings[LowerName(environ[i][1])]
                \in Coerce(LowerName(environ[i][1]), environ[i][2])

\* C8 as amended: a variable whose name is a spelling of a field's name, in
\* either case, supplies the field's value (not the file, not the default)
\* unless a later variable of the environment spells the same name.
C8_LastVariantSupplies ==
    Finished =>
        \A i \in DOMAIN environ :
            LastSpelling(i) =>
                LET f == LowerName(environ[i][1])
                    v == Coerce(f, environ[i][2])
                IN  IF v = {}
                    THEN <<f, CoercionKind(f)>> \in error
                    ELSE Loaded => settings[f] \in v

\* A successful load in which an upper-case variable supplies a field for
\* which the file holds another value.
C8_Witness ==
    /\ Loaded
    /\ \E i \in DOMAIN environ :
          /\ environ[i][1] \in UpperNames
          /\ LET f == LowerName(environ[i][1])
             IN  /\ FileRaw(f) # {}
                 /\ environ[i][2] \notin FileRaw(f)
                 /\ settings[f] \in Coerce(f, environ[i][2])
                 /\ settings[f] # Default(f)

\* Whether a field fails, given the raw value it resolves from: required
\* with no source, or resolved to text that does not coerce to its type.
Fails(f, src) ==
    IF src = {} THEN f \in Required
    ELSE \E r \in src : Coerce(f, r) = {}

\* C9: the error of a failed load names every failing field, whether missing
\* or not coercible, and no field that resolved and coerced.
C9_AllFailuresReported ==
    Failed =>
        LET res == ResolvedAll
        IN  /\ error # {}
            /\ ErrorFields = {f \in FieldNames : Fails(f, res[f])}
            /\ \A e \in error :
                  e[2] = IF res[e[1]] = {} THEN "missing" ELSE CoercionKind(e[1])

\* A failed load with a missing required field and a field that does not
\* coerce.
C9_Witness ==
    /\ Failed
    /\ Cardinality(error) >= 2
    /\ \E e \in error : e[2] = "missing"
    /\ \E e \in error : e[2] # "missing"

LifecycleStates == {"unloaded", "loaded", "failed"}

\* C7: the lifecycle has the three states unloaded, loaded and failed; a step
\* from unloaded ends in loaded or failed, and no step leaves loaded or
\* failed.
C7_LifecycleTerminal ==
    [][ /\ lifecycle \in LifecycleStates
        /\ lifecycle' \in LifecycleStates
        /\ lifecycle = "unloaded" => lifecycle' \in {"loaded", "failed"}
        /\ lifecycle # "unloaded" => lifecycle' = lifecycle ]_vars

\* The module is loaded and the process has since assigned an attribute and
\* constructed a further instance.
C7_Witness == Loaded /\ assigns > 0 /\ instances > 1

\* C4 as stated: once loaded, no step changes a field of settings.
C4_NeverMutated == [][Loaded => settings' = settings]_vars

\* C5 as stated: at most one instance is ever constructed, exactly one after
\* a successful import.
C5_SingleInstance == instances <= 1 /\ (Loaded => instances = 1)

====
